---- MODULE Spec2Model ----
(***************************************************************************)
(* The status-change audit log of ViewApi (src/lib/viewApi.ts):            *)
(* logStatusChange, validateAllFilesIndexed, updateRecord, updateRecords.  *)
(*                                                                         *)
(* Text is a sequence of symbols.  A symbol is one character ("[", "]",    *)
(* ",", "/", ".", ":", " ", newline) or a word: a run of characters none   *)
(* of which is one of those ("todo", "2026-11-03", "---").                 *)
(***************************************************************************)
EXTENDS Naturals, Sequences, FiniteSets, TLC

VARIABLES settings, dataFrame, fs, calls, apiCalls, runLog, codec

vars == <<settings, dataFrame, fs, calls, apiCalls, runLog, codec>>

(***************************************************************************)
(* Bounds of the model.                                                    *)
(***************************************************************************)
\* records in the record cache at most
MaxCache == 2
\* records in the array passed to updateRecords at most
MaxBatch == 2
\* file operations that fail in one call at most
MaxFaults == 2
\* runs of validateAllFilesIndexed in one behaviour of SpecReconcile at most
MaxRuns == 2
\* symbols in a record name given to the codec at most
MaxName == 2
\* lines in the log file before the runs of SpecReconcile at most
MaxLogLines == 2
\* lines in the text of a record file given to the status scan at most
MaxNoteLines == 4

(***************************************************************************)
(* Text helpers.                                                           *)
(***************************************************************************)
NL == "\n"

Whitespace == {" ", NL}

None == <<>>

Some(v) == <<v>>

\* JavaScript values of a status field: undefined, null, or a string.
Undefined == [t |-> "undefined"]

Null == [t |-> "null"]

Str(s) == [t |-> "string", v |-> s]

\* `${v || 'null'}`: a falsy value (undefined, null, '') gives 'null'.
OrNull(v) == IF v.t = "string" /\ v.v # <<>> THEN v.v ELSE <<"null">>

Min(S) == CHOOSE n \in S : \A m \in S : n <= m

Max(S) == CHOOSE n \in S : \A m \in S : n >= m

IsPrefix(p, s) == Len(p) <= Len(s) /\ SubSeq(s, 1, Len(p)) = p

EndsWith(s, e) == Len(e) <= Len(s) /\ SubSeq(s, Len(s) - Len(e) + 1, Len(s)) = e

\* s.split(sep): the pieces of s between the occurrences of the symbol sep.
RECURSIVE Split(_, _)
Split(s, sep) ==
  IF \A k \in 1..Len(s) : s[k] # sep THEN <<s>>
  ELSE LET k == CHOOSE k \in 1..Len(s) : s[k] = sep /\ \A m \in 1..(k - 1) : s[m] # sep
       IN  <<SubSeq(s, 1, k - 1)>> \o Split(SubSeq(s, k + 1, Len(s)), sep)

\* line.trim() is the empty (falsy) string
IsBlank(line) == \A k \in 1..Len(line) : line[k] \in Whitespace

RECURSIVE Trim(_)
Trim(s) ==
  IF s = <<>> THEN s
  ELSE IF s[1] \in Whitespace THEN Trim(Tail(s))
  ELSE IF s[Len(s)] \in Whitespace THEN Trim(SubSeq(s, 1, Len(s) - 1))
  ELSE s

RECURSIVE SelectLines(_)
SelectLines(ls) ==
  IF ls = <<>> THEN <<>>
  ELSE IF IsBlank(Head(ls)) THEN SelectLines(Tail(ls))
  ELSE <<Head(ls)>> \o SelectLines(Tail(ls))

\* existingContent.split('\n').filter(line => line.trim())
Lines(content) == SelectLines(Split(content, NL))

(***************************************************************************)
(* The log codec.                                                          *)
(***************************************************************************)
\* dayjs().format('YYYY-MM-DD')
CurrentDate == <<"2026-11-03">>

\* dayjs().format('HH:mm:ss')
CurrentTime == <<"10", ":", "15", ":", "00">>

\* The length of the run of symbols other than "]" that starts at s[k].
RECURSIVE NameRun(_, _)
NameRun(s, k) == IF k > Len(s) \/ s[k] = "]" THEN 0 ELSE 1 + NameRun(s, k + 1)

\* /^\[([^\]]+)\]\],/
NamePatternOneBracket(line) ==
  LET n == NameRun(line, 2)
  IN  IF /\ Len(line) >= 1 /\ line[1] = "["
         /\ n >= 1
         /\ Len(line) >= n + 4
         /\ line[n + 2] = "]" /\ line[n + 3] = "]" /\ line[n + 4] = ","
      THEN Some(SubSeq(line, 2, n + 1)) ELSE None

\* /\[\[([^\]\[]+)\]\],/
NamePatternUnanchored(line) ==
  LET hit(p) == /\ p + 1 <= Len(line) /\ line[p] = "[" /\ line[p + 1] = "["
                /\ NameRun(line, p + 2) >= 1
                /\ Len(line) >= p + NameRun(line, p + 2) + 4
                /\ line[p + NameRun(line, p + 2) + 2] = "]"
                /\ line[p + NameRun(line, p + 2) + 3] = "]"
                /\ line[p + NameRun(line, p + 2) + 4] = ","
      ps == {p \in 1..Len(line) : hit(p)}
  IN  IF ps = {} THEN None
      ELSE Some(SubSeq(line, Min(ps) + 2, Min(ps) + NameRun(line, Min(ps) + 2) + 1))

\* line.match(/^\[\[([^\]]+)\]\],/): Some(match[1]) or None.
NamePattern(line) ==
  LET n == NameRun(line, 3)
  IN  IF /\ Len(line) >= 2 /\ line[1] = "[" /\ line[2] = "["
         /\ n >= 1
         /\ Len(line) >= n + 5
         /\ line[n + 3] = "]" /\ line[n + 4] = "]" /\ line[n + 5] = ","
      THEN Some(SubSeq(line, 3, n + 2)) ELSE None

IndexedNothing(content) == {}

\* The names of the log's entries: indexedFiles after the scan of the log.
IndexedFiles(content) ==
  LET ls == Lines(content)
  IN  {NamePattern(ls[k])[1] : k \in {m \in 1..Len(ls) : NamePattern(ls[m]) # None}}

\* `[[${fileName}]],${currentDate},${currentTime},${oldStatus || 'null'},${newStatus || 'null'}\n`
ChangeEntry(fileName, oldStatus, newStatus) ==
  <<"[", "[">> \o fileName \o <<"]", "]", ",">> \o CurrentDate \o <<",">> \o CurrentTime
    \o <<",">> \o OrNull(oldStatus) \o <<",">> \o OrNull(newStatus) \o <<NL>>

\* `[[${fileName}]],${creationDate},,${initialStatus}\n`
BackfillEntry(fileName, creationDate, initialStatus) ==
  <<"[", "[">> \o fileName \o <<"]", "]", ",">> \o creationDate \o <<",", ",">>
    \o initialStatus \o <<NL>>

\* record.id.split('/').pop()?.replace(/\.md$/, '') || record.id
DerivedName(id) ==
  LET parts == Split(id, "/")
      last == parts[Len(parts)]
      stripped == IF EndsWith(last, <<".", "md">>) THEN SubSeq(last, 1, Len(last) - 2)
                  ELSE last
  IN  IF stripped # <<>> THEN stripped ELSE id

(***************************************************************************)
(* The initial status of a record, from the text of its file.              *)
(***************************************************************************)
\* The length of the run of whitespace that starts at s[k].
RECURSIVE SpaceRun(_, _)
SpaceRun(s, k) == IF k > Len(s) \/ s[k] \notin Whitespace THEN 0 ELSE 1 + SpaceRun(s, k + 1)

\* The last position of the line that holds s[k] (s[k] is not a newline).
RECURSIVE EndOfLine(_, _)
EndOfLine(s, k) == IF k + 1 > Len(s) \/ s[k + 1] = NL THEN k ELSE EndOfLine(s, k + 1)

\* content.match(/^---\s*\n([\s\S]*?)\n---/): Some(match[1]) or None.  \s* is
\* greedy, so the \n is the last newline of the whitespace after the fence
\* that still leaves a closing fence; the group is lazy, so it ends at the
\* first closing fence after it.
FrontmatterMatch(content) ==
  LET closing(k) == {p \in (k + 1)..(Len(content) - 1) :
                       content[p] = NL /\ content[p + 1] = "---"}
      ks == {k \in 2..(1 + SpaceRun(content, 2)) : content[k] = NL /\ closing(k) # {}}
  IN  IF content = <<>> \/ content[1] # "---" \/ ks = {} THEN None
      ELSE Some(SubSeq(content, Max(ks) + 1, Min(closing(Max(ks))) - 1))

\* The capture of /^status:\s*(.+)$/m tried at position p of the block:
\* \s* is greedy and may run over newlines; (.+) is the rest of a line and
\* needs one symbol at least, which \s* gives back when it ran to the end.
StatusAt(block, p) ==
  LET q == p + 2
      r == q + SpaceRun(block, q)
      back == {m \in q..(r - 1) : block[m] # NL}
  IN  IF r <= Len(block) THEN Some(SubSeq(block, r, EndOfLine(block, r)))
      ELSE IF back # {} THEN Some(SubSeq(block, Max(back), EndOfLine(block, Max(back))))
      ELSE None

\* block.match(/^status:\s*(.+)$/m): Some(match[1]) or None.
StatusMatch(block) ==
  LET ps == {p \in 1..(Len(block) - 1) :
               /\ p = 1 \/ block[p - 1] = NL
               /\ block[p] = "status" /\ block[p + 1] = ":"
               /\ StatusAt(block, p) # None}
  IN  IF ps = {} THEN None ELSE StatusAt(block, Min(ps))

\* initialStatus after the scan of the file's text.
FrontmatterStatus(content) ==
  LET fm == FrontmatterMatch(content)
  IN  IF fm # None /\ fm[1] # <<>> /\ StatusMatch(fm[1]) # None
      THEN Trim(StatusMatch(fm[1])[1])
      ELSE <<"backlog">>

(***************************************************************************)
(* The records, the settings and the files of the model.                   *)
(***************************************************************************)
IdA == <<"notes", "/", "a", ".", "md">>

IdB == <<"b", ".", "md">>

IdC == <<"c", "]", "d", ".", "md">>

RecordIds == {IdA, IdB, IdC}

Todo == Str(<<"todo">>)

Doing == Str(<<"doing">>)

Statuses == {Todo, Doing, Undefined}

\* The status a call may bring for a record.
IncomingStatuses == {Doing, Undefined}

\* The status of the records in the record cache before a call.
CachedStatus(id) == IF id = IdA THEN Todo ELSE IF id = IdB THEN Undefined ELSE Doing

\* A DataRecord, as far as ViewApi reads it: id and values['status'].
Record(id, status) == [id |-> id, status |-> status]

Records == {Record(id, st) : id \in RecordIds, st \in IncomingStatuses}

FieldLists == {<<"status">>}

LogPaths == {<<>>, <<"logs">>}

\* logPath ? `${logPath}/project-log.md` : 'project-log.md'
ActualLogPath(logPath) ==
  IF logPath # <<>> THEN logPath \o <<"/", "project-log", ".", "md">>
  ELSE <<"project-log", ".", "md">>

Paths == RecordIds \cup {ActualLogPath(lp) : lp \in LogPaths}

\* get(dataFrame).records: records of distinct ids.
Caches ==
  {[k \in 1..Len(q) |-> Record(q[k], CachedStatus(q[k]))] :
     q \in {r \in UNION {[1..n -> RecordIds] : n \in 0..MaxCache} :
              \A a, b \in 1..Len(r) : a # b => r[a] # r[b]}}

\* The text of the record files.
NoteWithStatus == <<"---", NL, "status", ":", " ", "doing", " ", NL, "---", NL, "text">>

NotePlain == <<"text", NL>>

NoteFiles ==
  { (IdA :> Some(NoteWithStatus)) @@ (IdB :> None) @@ (IdC :> Some(NotePlain)) }

\* What a log file may hold before a call: nothing written by the program
\* yet, entries of earlier calls, or text a user typed into the file.
InitialLogs ==
  { None,
    Some(<<>>),
    Some(ChangeEntry(<<"a">>, Todo, Doing)),
    Some(<<"x", "[", "[", "b", "]", "]", ",">>) }

(***************************************************************************)
(* The state of one call of updateRecord / updateRecords.                  *)
(***************************************************************************)
CallIds == {1}

Event(op, path, ok, text) == [op |-> op, path |-> path, ok |-> ok, text |-> text]

IdleCall ==
  [pc |-> "idle", op |-> "none", records |-> <<>>, fields |-> <<>>, i |-> 0,
   tracking |-> FALSE, logPath |-> <<>>, snapshot |-> <<>>,
   logFile |-> FALSE, existingContent |-> <<>>,
   allFiles |-> <<>>, missingFiles |-> <<>>, j |-> 0, newEntries |-> <<>>,
   trace |-> <<>>, before |-> None, start |-> 0]

Log(l) == ActualLogPath(l.logPath)

Traced(l, e) == [l EXCEPT !.trace = Append(l.trace, e)]

\* The file operations of the call that failed.
Faults(l) == Cardinality({k \in 1..Len(l.trace) : ~l.trace[k].ok})

\* Whether the next file operation succeeds: it may fail, up to the bound.
Outcomes(l) == IF Faults(l) < MaxFaults THEN BOOLEAN ELSE {TRUE}

\* Whether a write or create succeeds: create fails when the file exists.
WriteOutcomes(l) ==
  IF ~l.logFile /\ fs[ActualLogPath(l.logPath)] # None THEN {FALSE} ELSE Outcomes(l)

\* currentDataFrame.records.find(r => r.id === record.id): Some(r) or None.
Find(records, id) ==
  LET ks == {k \in 1..Len(records) : records[k].id = id}
  IN  IF ks = {} THEN None ELSE Some(records[Min(ks)])

ChangedWhenBothDefined(records, record) ==
  /\ Find(records, record.id) # None
  /\ record.status # Undefined
  /\ Find(records, record.id)[1].status # Undefined
  /\ record.status # Find(records, record.id)[1].status

\* existingRecord && record.values['status'] !== existingRecord.values['status']
Changed(records, record) ==
  /\ Find(records, record.id) # None
  /\ record.status # Find(records, record.id)[1].status

AlwaysTracking(s) == TRUE

\* preferences.enableStateTracking
TrackingEnabled(s) == s.enableStateTracking

\* records.some(record => existingRecord && status differs)
AnyChanged(l) == \E k \in 1..Len(l.records) : Changed(l.snapshot, l.records[k])

EntryOfIncoming(l) ==
  LET record == l.records[l.i]
  IN  ChangeEntry(DerivedName(record.id), record.status, record.status)

EntryAgainstEarlier(l) ==
  LET record == l.records[l.i]
      earlier == {k \in 1..(l.i - 1) : l.records[k].id = record.id}
      old == IF earlier = {} THEN Find(l.snapshot, record.id)[1].status
             ELSE l.records[Max(earlier)].status
  IN  ChangeEntry(DerivedName(record.id), old, record.status)

\* The log entry of the record the call is at.
CurrentEntry(l) ==
  LET record == l.records[l.i]
  IN  ChangeEntry(DerivedName(record.id), Find(l.snapshot, record.id)[1].status,
                  record.status)

\* The for loop of updateRecords at record i: the next suspension point.
RECURSIVE LoopHead(_)
LoopHead(l) ==
  IF l.i > Len(l.records) THEN [l EXCEPT !.pc = "mutate"]
  ELSE IF Changed(l.snapshot, l.records[l.i]) THEN [l EXCEPT !.pc = "log_start"]
  ELSE IF AnyChanged(l) THEN [l EXCEPT !.pc = "val_start"]
  ELSE LoopHead([l EXCEPT !.i = l.i + 1])

\* After `await this.logStatusChange(...)`.
AfterLog(l) ==
  LET m == [l EXCEPT !.logFile = FALSE, !.existingContent = <<>>]
  IN  IF l.op = "updateRecord" \/ AnyChanged(l) THEN [m EXCEPT !.pc = "val_start"]
      ELSE LoopHead([m EXCEPT !.i = l.i + 1])

\* After `await this.validateAllFilesIndexed(logPath)`.
AfterValidate(l) ==
  LET m == [l EXCEPT !.logFile = FALSE, !.existingContent = <<>>, !.allFiles = <<>>,
                     !.missingFiles = <<>>, !.j = 0, !.newEntries = <<>>]
  IN  IF l.op = "updateRecords" THEN LoopHead([m EXCEPT !.i = l.i + 1])
      ELSE IF l.op = "updateRecord" THEN [m EXCEPT !.pc = "mutate"]
      ELSE [m EXCEPT !.pc = "done"]

Rethrow(l) == [l EXCEPT !.pc = "raised"]

\* catch (error) of logStatusChange: the error is logged and dropped.
CatchLogStatusChange(l) == AfterLog(l)

\* catch (error) of validateAllFilesIndexed: the error is logged and dropped.
CatchValidate(l) == AfterValidate(l)

(***************************************************************************)
(* The collaborators: the data source, the record cache, the file system.  *)
(***************************************************************************)
\* this.dataSource.includes(record.id)
DataSourceIncludes(id) == id # IdC

\* dataFrame.updateRecord(record): the cached record of that id is replaced.
StoreUpdateRecord(records, record) ==
  [k \in 1..Len(records) |-> IF records[k].id = record.id THEN record ELSE records[k]]

\* dataFrame.updateRecords(rs)
RECURSIVE StoreUpdateRecords(_, _)
StoreUpdateRecords(records, rs) ==
  IF rs = <<>> THEN records
  ELSE StoreUpdateRecords(StoreUpdateRecord(records, Head(rs)), Tail(rs))

\* records.filter((r) => this.dataSource.includes(r.id))
RECURSIVE Included(_)
Included(rs) ==
  IF rs = <<>> THEN <<>>
  ELSE IF DataSourceIncludes(Head(rs).id) THEN <<Head(rs)>> \o Included(Tail(rs))
  ELSE Included(Tail(rs))

\* file.write(content) and fileSystem.create(path, content), when they succeed
WriteFile(files, path, content) == [files EXCEPT ![path] = Some(content)]

(***************************************************************************)
(* updateRecord and updateRecords.                                         *)
(***************************************************************************)
MutateThenValidate(c, l) ==
  /\ dataFrame' = StoreUpdateRecords(dataFrame, Included(l.records))
  /\ apiCalls' = Append(apiCalls, [op |-> l.op, fields |-> l.fields, records |-> l.records])
  /\ calls' = [calls EXCEPT ![c] =
                 [Traced(Traced(l, Event("cache", <<>>, TRUE, <<>>)),
                         Event("dataApi", <<>>, TRUE, <<>>))
                    EXCEPT !.pc = IF l.tracking /\ l.trace = <<>> THEN "val_start" ELSE "done"]]

\* Lines 188-191 and 227-229: the cache is updated and dataApi is called.
Mutate(c, l) ==
  /\ dataFrame' = StoreUpdateRecords(dataFrame, Included(l.records))
  /\ apiCalls' = Append(apiCalls, [op |-> l.op, fields |-> l.fields, records |-> l.records])
  /\ calls' = [calls EXCEPT ![c] =
                 [Traced(Traced(l, Event("cache", <<>>, TRUE, <<>>)),
                         Event("dataApi", <<>>, TRUE, <<>>)) EXCEPT !.pc = "done"]]

Begin(op, records, fields) ==
  [IdleCall EXCEPT !.op = op, !.records = records, !.fields = fields, !.i = 1,
                   !.tracking = TrackingEnabled(settings), !.logPath = settings.logPath,
                   !.snapshot = dataFrame, !.before = fs[ActualLogPath(settings.logPath)],
                   !.start = Len(apiCalls)]

UpdateRecord(c, record, fields) ==
  /\ calls[c].pc = "idle"
  /\ LET l == Begin("updateRecord", <<record>>, fields)
     IN  IF l.tracking /\ Changed(l.snapshot, record)
         THEN /\ calls' = [calls EXCEPT ![c] = [l EXCEPT !.pc = "log_start"]]
              /\ UNCHANGED <<dataFrame, apiCalls>>
         ELSE Mutate(c, l)
  /\ UNCHANGED <<settings, fs, runLog, codec>>

UpdateRecords(c, records, fields) ==
  /\ calls[c].pc = "idle"
  /\ LET l == Begin("updateRecords", records, fields)
         h == IF l.tracking THEN LoopHead(l) ELSE [l EXCEPT !.pc = "mutate"]
     IN  IF h.pc = "mutate"
         THEN Mutate(c, h)
         ELSE /\ calls' = [calls EXCEPT ![c] = h]
              /\ UNCHANGED <<dataFrame, apiCalls>>
  /\ UNCHANGED <<settings, fs, runLog, codec>>

\* The continuation after the last await of the audit logic.
Finish(c) ==
  /\ calls[c].pc = "mutate"
  /\ Mutate(c, calls[c])
  /\ UNCHANGED <<settings, fs, runLog, codec>>

(***************************************************************************)
(* logStatusChange.                                                        *)
(***************************************************************************)
\* Line 31: this.fileSystem.getFile(actualLogPath)
LogStart(c) ==
  LET l == calls[c] IN
  /\ l.pc = "log_start"
  /\ \E ok \in Outcomes(l) :
       LET t == Traced(l, Event("getFile", Log(l), ok, <<>>))
       IN  calls' = [calls EXCEPT ![c] =
             IF ~ok THEN CatchLogStatusChange(t)
             ELSE IF fs[Log(l)] # None THEN [t EXCEPT !.pc = "log_read", !.logFile = TRUE]
             ELSE [t EXCEPT !.pc = "log_write", !.logFile = FALSE]]
  /\ UNCHANGED <<settings, dataFrame, fs, apiCalls, runLog, codec>>

LogReadEmpty(c) ==
  LET l == calls[c] IN
  /\ l.pc = "log_read"
  /\ \E ok \in Outcomes(l) :
       /\ ok => fs[Log(l)] # None
       /\ calls' = [calls EXCEPT ![c] =
            [Traced(l, Event("read", Log(l), ok, <<>>)) EXCEPT
               !.pc = "log_write", !.existingContent = <<>>]]
  /\ UNCHANGED <<settings, dataFrame, fs, apiCalls, runLog, codec>>

\* Lines 34-41: await logFile.read(), '' when it fails
LogRead(c) ==
  LET l == calls[c] IN
  /\ l.pc = "log_read"
  /\ \E ok \in Outcomes(l) :
       /\ ok => fs[Log(l)] # None
       /\ calls' = [calls EXCEPT ![c] =
            [Traced(l, Event("read", Log(l), ok, <<>>)) EXCEPT
               !.pc = "log_write",
               !.existingContent = IF ok THEN fs[Log(l)][1] ELSE <<>>]]
  /\ UNCHANGED <<settings, dataFrame, fs, apiCalls, runLog, codec>>

\* Lines 44-53: the entry is added to what was read, and written or created
LogWrite(c) ==
  LET l == calls[c]
      newContent == l.existingContent \o CurrentEntry(l)
      op == IF l.logFile THEN "write" ELSE "create"
  IN
  /\ l.pc = "log_write"
  /\ \E ok \in WriteOutcomes(l) :
       /\ fs' = IF ok THEN WriteFile(fs, Log(l), newContent) ELSE fs
       /\ calls' = [calls EXCEPT ![c] =
            LET t == Traced(l, Event(op, Log(l), ok, CurrentEntry(l)))
            IN  IF ok THEN AfterLog(t) ELSE CatchLogStatusChange(t)]
  /\ UNCHANGED <<settings, dataFrame, apiCalls, runLog, codec>>

(***************************************************************************)
(* validateAllFilesIndexed.                                                *)
(***************************************************************************)
AllFilesMissing(allFiles, indexedFiles) == allFiles

NoFilesMissing(allFiles, indexedFiles) == <<>>

RECURSIVE MissingFilesReversed(_, _)
MissingFilesReversed(allFiles, indexedFiles) ==
  IF allFiles = <<>> THEN <<>>
  ELSE IF DerivedName(Head(allFiles).id) \in indexedFiles
       THEN MissingFilesReversed(Tail(allFiles), indexedFiles)
       ELSE MissingFilesReversed(Tail(allFiles), indexedFiles) \o <<Head(allFiles)>>

\* Lines 91-94: the records whose derived name is not indexed, in order.
RECURSIVE MissingFiles(_, _)
MissingFiles(allFiles, indexedFiles) ==
  IF allFiles = <<>> THEN <<>>
  ELSE IF DerivedName(Head(allFiles).id) \in indexedFiles
       THEN MissingFiles(Tail(allFiles), indexedFiles)
       ELSE <<Head(allFiles)>> \o MissingFiles(Tail(allFiles), indexedFiles)

\* Lines 90-97, with the content read: nothing is missing, or the loop starts.
Scan(l, content, indexedFiles) ==
  LET missing == MissingFiles(l.allFiles, indexedFiles)
  IN  IF missing = <<>> THEN AfterValidate(l)
      ELSE [l EXCEPT !.pc = "val_file", !.existingContent = content,
                     !.missingFiles = missing, !.j = 1, !.newEntries = <<>>]

\* Lines 65-69: get(dataFrame).records and getFile(actualLogPath)
ValidateStart(c) ==
  LET l == calls[c] IN
  /\ l.pc = "val_start"
  /\ \E ok \in Outcomes(l) :
       LET t == [Traced(Traced(l, Event("validate", <<>>, TRUE, <<>>)),
                        Event("getFile", Log(l), ok, <<>>))
                   EXCEPT !.allFiles = dataFrame]
       IN  calls' = [calls EXCEPT ![c] =
             IF ~ok THEN CatchValidate(t)
             ELSE IF fs[Log(l)] # None THEN [t EXCEPT !.pc = "val_read", !.logFile = TRUE]
             ELSE Scan([t EXCEPT !.logFile = FALSE], <<>>, {})]
  /\ UNCHANGED <<settings, dataFrame, fs, apiCalls, runLog, codec>>

\* Lines 73-88: await logFile.read() and the scan of its lines
ValidateRead(c) ==
  LET l == calls[c] IN
  /\ l.pc = "val_read"
  /\ \E ok \in Outcomes(l) :
       /\ ok => fs[Log(l)] # None
       /\ calls' = [calls EXCEPT ![c] =
            LET t == Traced(l, Event("read", Log(l), ok, <<>>))
            IN  IF ok THEN Scan(t, fs[Log(l)][1], IndexedFiles(fs[Log(l)][1]))
                ELSE Scan(t, <<>>, {})]
  /\ UNCHANGED <<settings, dataFrame, fs, apiCalls, runLog, codec>>

\* Lines 100-138: one missing record; its file is looked up and read.
ValidateFile(c) ==
  LET l == calls[c]
      record == l.missingFiles[l.j]
      fileName == DerivedName(record.id)
      file == fs[record.id]
      next(t, entry) ==
        [t EXCEPT !.newEntries = l.newEntries \o entry, !.j = l.j + 1,
                  !.pc = IF l.j = Len(l.missingFiles) THEN "val_write" ELSE "val_file"]
  IN
  /\ l.pc = "val_file"
  /\ \E found \in Outcomes(l), ok \in Outcomes(l) :
       LET t == Traced(l, Event("getFile", record.id, found, <<>>))
           r == Traced(t, Event("read", record.id, ok, <<>>))
       IN  calls' = [calls EXCEPT ![c] =
             IF ~found THEN CatchValidate(t)
             ELSE IF file = None
                  THEN next(t, BackfillEntry(fileName, <<>>, <<"backlog">>))
             ELSE IF ok
                  THEN next(r, BackfillEntry(fileName, CurrentDate, FrontmatterStatus(file[1])))
             ELSE next(r, BackfillEntry(fileName, CurrentDate, <<"backlog">>))]
  /\ UNCHANGED <<settings, dataFrame, fs, apiCalls, runLog, codec>>

\* Lines 141-149: the entries are added to what was read, and written or created
ValidateWrite(c) ==
  LET l == calls[c]
      updatedContent == l.existingContent \o l.newEntries
      op == IF l.logFile THEN "write" ELSE "create"
  IN
  /\ l.pc = "val_write"
  /\ \E ok \in WriteOutcomes(l) :
       /\ fs' = IF ok THEN WriteFile(fs, Log(l), updatedContent) ELSE fs
       /\ calls' = [calls EXCEPT ![c] =
            LET t == Traced(l, Event(op, Log(l), ok, l.newEntries))
            IN  IF ok THEN AfterValidate(t) ELSE CatchValidate(t)]
  /\ UNCHANGED <<settings, dataFrame, apiCalls, runLog, codec>>

\* validateAllFilesIndexed on its own, for the properties of reconciliation.
Validate(c) ==
  /\ calls[c].pc \in {"idle", "done"}
  /\ Len(runLog) + 1 < MaxRuns \/ calls[c].pc = "idle"
  /\ runLog' = IF calls[c].pc = "idle" THEN runLog
               ELSE Append(runLog, [before |-> calls[c].before, after |-> fs[Log(calls[c])],
                                    trace |-> calls[c].trace])
  /\ calls' = [calls EXCEPT ![c] =
       [IdleCall EXCEPT !.op = "validate", !.pc = "val_start",
                        !.tracking = TrackingEnabled(settings),
                        !.logPath = settings.logPath, !.snapshot = dataFrame,
                        !.before = fs[ActualLogPath(settings.logPath)]]]
  /\ UNCHANGED <<settings, dataFrame, fs, apiCalls, codec>>

(***************************************************************************)
(* The specification of the update calls, one call at a time.              *)
(***************************************************************************)
Batches == UNION {[1..n -> Records] : n \in 0..MaxBatch}

Init ==
  /\ settings \in [enableStateTracking : BOOLEAN, logPath : LogPaths]
  /\ dataFrame \in Caches
  /\ \E notes \in NoteFiles, log \in InitialLogs :
       fs = [p \in Paths |->
               IF p \in RecordIds THEN notes[p]
               ELSE IF p = ActualLogPath(settings.logPath) THEN log ELSE None]
  /\ calls = [c \in CallIds |-> IdleCall]
  /\ apiCalls = <<>>
  /\ runLog = <<>>
  /\ codec = None

Steps(c) ==
  \/ LogStart(c)
  \/ LogRead(c)
  \/ LogWrite(c)
  \/ ValidateStart(c)
  \/ ValidateRead(c)
  \/ ValidateFile(c)
  \/ ValidateWrite(c)

Next ==
  \E c \in CallIds :
    \/ \E record \in Records, fields \in FieldLists : UpdateRecord(c, record, fields)
    \/ \E records \in Batches, fields \in FieldLists : UpdateRecords(c, records, fields)
    \/ Steps(c)
    \/ Finish(c)

Spec == Init /\ [][Next]_vars

(***************************************************************************)
(* What the properties speak of.                                           *)
(***************************************************************************)
Content(file) == IF file = None THEN <<>> ELSE file[1]

\* The log file's text when the call began, and now.
Before(l) == Content(l.before)

After(l) == Content(fs[Log(l)])

\* The text the call has added to the log, when the log only grew.
Appended(l) == SubSeq(After(l), Len(Before(l)) + 1, Len(After(l)))

Count(q, x) == Cardinality({k \in 1..Len(q) : q[k] = x})

Events(l, ops) == {k \in 1..Len(l.trace) : l.trace[k].op \in ops}

FileOps == {"getFile", "read", "write", "create"}

\* An entry without its newline: a line of the log.
Line(entry) == SubSeq(entry, 1, Len(entry) - 1)

\* The line begins with the bracketed name.
HasName(line, name) == IsPrefix(<<"[", "[">> \o name \o <<"]", "]", ",">>, line)

NamedLines(text, name) ==
  LET ls == Split(text, NL) IN Cardinality({k \in 1..Len(ls) : HasName(ls[k], name)})

\* The elements of the call's records that the change detector fires on.
ChangedAt(l) == {k \in 1..Len(l.records) : Changed(l.snapshot, l.records[k])}

\* The call is at a step that a successful file operation lets it take.
CanStep(l) ==
  \/ l.pc \in {"log_start", "val_start", "mutate"}
  \/ l.pc \in {"log_read", "val_read"} /\ fs[Log(l)] # None
  \/ l.pc \in {"log_write", "val_write"} /\ (l.logFile \/ fs[Log(l)] = None)
  \/ l.pc = "val_file" /\ l.j \in 1..Len(l.missingFiles)

Tracked(l) == l.op \in {"updateRecord", "updateRecords"} /\ l.tracking

(***************************************************************************)
(* C1.  The log is append-only: in every call, with or without failing     *)
(* file operations, the log's text at the start of the call is a prefix    *)
(* of its text at every later point of the call.                           *)
(***************************************************************************)
C1_AppendOnly ==
  \A c \in CallIds : calls[c].pc # "idle" => IsPrefix(Before(calls[c]), After(calls[c]))

(***************************************************************************)
(* C2.  Every detected status change yields exactly one change entry:      *)
(* when a call with state tracking enabled has returned, the log holds,    *)
(* for each element of the call whose status differs from the cached one,  *)
(* exactly one more line with its name, old status and new status than     *)
(* before the call.                                                        *)
(***************************************************************************)
C2_OneEntryPerChange ==
  \A c \in CallIds :
    LET l == calls[c] IN
    (l.pc = "done" /\ Tracked(l)) =>
      \A k \in ChangedAt(l) :
        LET line == Line(CurrentEntry([l EXCEPT !.i = k]))
        IN  Count(Split(After(l), NL), line) = Count(Split(Before(l), NL), line) + 1

\* C2 as amended: when no file operation of the call failed, the log has
\* only grown, and for every name, old status and new status the appended
\* text holds as many change lines of them as the call has elements of
\* that name whose cached status is the old and whose status is the new one.
C2_OneEntryPerChangedElement ==
  \A c \in CallIds :
    LET l == calls[c] IN
    (l.pc = "done" /\ Tracked(l) /\ Faults(l) = 0) =>
      /\ IsPrefix(Before(l), After(l))
      /\ \A id \in RecordIds, old \in Statuses, new \in Statuses :
           Count(Split(Appended(l), NL), Line(ChangeEntry(DerivedName(id), old, new)))
             = Cardinality({k \in ChangedAt(l) :
                              /\ DerivedName(l.records[k].id) = DerivedName(id)
                              /\ Find(l.snapshot, l.records[k].id)[1].status = old
                              /\ l.records[k].status = new})

C2_Witness ==
  \E c \in CallIds :
    LET l == calls[c] IN
    /\ l.pc = "done" /\ l.op = "updateRecords" /\ l.tracking /\ Faults(l) = 0
    /\ Cardinality(ChangedAt(l)) = 2
    /\ l.records[1].id # l.records[2].id

(***************************************************************************)
(* C3.  Audit failures never block the primary mutation: a call never      *)
(* ends with an error raised by a file operation, it can always go on      *)
(* until it has returned, and when it has returned the record cache was    *)
(* updated with the incoming records and dataApi was called with the       *)
(* incoming records and fields.                                            *)
(***************************************************************************)
C3_MutationNotBlocked ==
  \A c \in CallIds :
    LET l == calls[c] IN
    /\ l.pc # "raised"
    /\ l.pc \notin {"idle", "done"} => CanStep(l)
    /\ (l.pc = "done" /\ l.op # "validate") =>
         /\ apiCalls = <<[op |-> l.op, fields |-> l.fields, records |-> l.records]>>
         /\ dataFrame = StoreUpdateRecords(l.snapshot, Included(l.records))

C3_Witness ==
  \E c \in CallIds :
    LET l == calls[c] IN
    /\ l.pc = "done" /\ Tracked(l) /\ Faults(l) = 2
    /\ \E a, b \in Events(l, FileOps) :
         /\ ~l.trace[a].ok /\ l.trace[a].path = Log(l)
         /\ ~l.trace[b].ok /\ l.trace[b].path \in RecordIds
    /\ apiCalls # <<>>

(***************************************************************************)
(* C5.  With state tracking disabled a call is over in one step, in which  *)
(* it looks up, reads, creates and writes no file: the log file is as it   *)
(* was when the call began.                                                *)
(***************************************************************************)
C5_NoLogAccessWhenDisabled ==
  \A c \in CallIds :
    LET l == calls[c] IN
    (l.pc # "idle" /\ l.op # "validate" /\ ~settings.enableStateTracking) =>
      /\ l.pc = "done"
      /\ Events(l, FileOps) = {}
      /\ fs[Log(l)] = l.before
      /\ \A lp \in LogPaths \ {settings.logPath} : fs[ActualLogPath(lp)] = None

C5_Witness ==
  \E c \in CallIds :
    LET l == calls[c] IN
    /\ l.pc = "done" /\ l.op = "updateRecords" /\ ~settings.enableStateTracking
    /\ ChangedAt(l) # {}

SingleChange(l) ==
  /\ l.pc = "done" /\ l.op = "updateRecord" /\ l.tracking
  /\ ChangedAt(l) = {1} /\ Faults(l) = 0

\* The cached records, other than the changed one, that the log with the
\* change entry does not index.
Others(l) ==
  {k \in 1..Len(l.snapshot) :
     /\ l.snapshot[k].id # l.records[1].id
     /\ DerivedName(l.snapshot[k].id) \notin IndexedFiles(Before(l) \o CurrentEntry(l))}

ChangeThenBackfill(l) ==
  LET entry == CurrentEntry(l)
      rest == SubSeq(Appended(l), Len(entry) + 1, Len(Appended(l)))
  IN  /\ IsPrefix(Before(l), After(l))
      /\ IsPrefix(entry, Appended(l))
      /\ NamedLines(rest, DerivedName(l.records[1].id)) = 0
      /\ \A k \in Others(l) :
           NamedLines(rest, DerivedName(l.snapshot[k].id))
             = Cardinality({m \in Others(l) :
                              DerivedName(l.snapshot[m].id) = DerivedName(l.snapshot[k].id)})

(***************************************************************************)
(* C7.  In an updateRecord call that detects a change and in which no      *)
(* file operation fails, the log grows by the change entry and then by     *)
(* the backfill lines: none for the changed record, and one for every      *)
(* other cached record whose name is not indexed in the log that holds     *)
(* the change entry.                                                       *)
(***************************************************************************)
C7_ChangeSeenByReconciliation ==
  \A c \in CallIds : SingleChange(calls[c]) => ChangeThenBackfill(calls[c])

NoBracket(name) == \A k \in 1..Len(name) : name[k] # "]"

EndsLine(text) == text = <<>> \/ text[Len(text)] = NL

\* The log's text ends a line, and the name can be indexed.
Indexable(l) == EndsLine(Before(l)) /\ NoBracket(DerivedName(l.records[1].id))

\* C7 as amended: in a single updateRecord call that detects a change and
\* in which no file operation failed, for a log that was empty or ended with
\* a newline when the call began and a changed record whose name has no "]",
\* the changed record gets its change line and no backfill line, and every
\* other cached record whose name the log does not index gets exactly one
\* backfill line after the change line.
C7_ChangeSeenWhenIndexable ==
  \A c \in CallIds :
    (SingleChange(calls[c]) /\ Indexable(calls[c])) => ChangeThenBackfill(calls[c])

C7_Witness ==
  \E c \in CallIds :
    /\ SingleChange(calls[c]) /\ Indexable(calls[c])
    /\ Others(calls[c]) # {}
    /\ Before(calls[c]) # <<>>

WellFormedLine(line) ==
  LET f == Split(line, ",")
  IN  /\ Len(f) = 5
      /\ Len(f[1]) > 4 /\ IsPrefix(<<"[", "[">>, f[1]) /\ EndsWith(f[1], <<"]", "]">>)
      /\ f[2] = CurrentDate
      /\ f[3] \in {CurrentTime, <<>>}
      /\ f[5] # <<>>

WellFormedText(text) ==
  /\ text # <<>> /\ text[Len(text)] = NL
  /\ \A line \in {Split(Line(text), NL)[k] : k \in 1..Len(Split(Line(text), NL))} :
       WellFormedLine(line)

(***************************************************************************)
(* C8.  Every line written to the log has the five fields of the log       *)
(* grammar, separated by commas: the bracketed name, the date, the time    *)
(* or nothing, the old status or null or nothing, the new status; and      *)
(* every line ends with a newline.                                         *)
(***************************************************************************)
C8_LineGrammar ==
  \A c \in CallIds :
    \A k \in Events(calls[c], {"write", "create"}) :
      calls[c].trace[k].ok => WellFormedText(calls[c].trace[k].text)

(***************************************************************************)
(* The specification of reconciliation: validateAllFilesIndexed run again  *)
(* and again, over a log that holds any text.                              *)
(***************************************************************************)
LogLineTexts ==
  { Line(BackfillEntry(<<"a">>, CurrentDate, <<"todo">>)),
    Line(ChangeEntry(<<"b">>, Todo, Doing)),
    Line(BackfillEntry(<<"c", "]", "d">>, CurrentDate, <<"backlog">>)),
    <<"x", "[", "[", "b", "]", "]", ",">>,
    <<"[", "[", "b", "]", "]">>,
    <<"[", "[", "a">>,
    <<" ">> }

RECURSIVE Join(_)
Join(ls) ==
  IF ls = <<>> THEN <<>>
  ELSE IF Len(ls) = 1 THEN ls[1]
  ELSE ls[1] \o <<NL>> \o Join(Tail(ls))

ReconcileLogs ==
  {None} \cup
  {Some(Join(q) \o end) : q \in UNION {[1..n -> LogLineTexts] : n \in 0..MaxLogLines},
                          end \in {<<>>, <<NL>>}}

InitReconcile ==
  /\ settings \in [enableStateTracking : {TRUE}, logPath : LogPaths]
  /\ dataFrame \in Caches
  /\ \E notes \in NoteFiles, log \in ReconcileLogs :
       fs = [p \in Paths |->
               IF p \in RecordIds THEN notes[p]
               ELSE IF p = ActualLogPath(settings.logPath) THEN log ELSE None]
  /\ calls = [c \in CallIds |-> IdleCall]
  /\ apiCalls = <<>>
  /\ runLog = <<>>
  /\ codec = None

NextReconcile ==
  \E c \in CallIds :
    \/ Validate(c)
    \/ ValidateStart(c)
    \/ ValidateRead(c)
    \/ ValidateFile(c)
    \/ ValidateWrite(c)

SpecReconcile == InitReconcile /\ [][NextReconcile]_vars

\* The call is a second run of validateAllFilesIndexed that has returned.
SecondRun(l) == l.pc = "done" /\ l.op = "validate" /\ runLog # <<>>

(***************************************************************************)
(* C4.  Reconciliation is idempotent: when validateAllFilesIndexed has run *)
(* twice in a row, the log after the second run is the log after the       *)
(* first.                                                                  *)
(***************************************************************************)
C4_Idempotent ==
  \A c \in CallIds : SecondRun(calls[c]) => fs[Log(calls[c])] = calls[c].before

\* C4 as amended: a second run of validateAllFilesIndexed right after a
\* first one leaves the log as it found it, when no file operation failed in
\* either run, no cached record has a "]" in its name, and the log was empty
\* or ended with a newline before the first run.
C4_IdempotentWhenIndexable ==
  \A c \in CallIds :
    LET l == calls[c] IN
    ( /\ SecondRun(l)
      /\ Faults(l) = 0 /\ Faults(runLog[Len(runLog)]) = 0
      /\ \A k \in 1..Len(dataFrame) : NoBracket(DerivedName(dataFrame[k].id))
      /\ EndsLine(Content(runLog[Len(runLog)].before)) )
    => fs[Log(l)] = l.before

C4_Witness ==
  \E c \in CallIds :
    LET l == calls[c] IN
    /\ SecondRun(l)
    /\ Faults(l) = 0 /\ Faults(runLog[Len(runLog)]) = 0
    /\ Len(dataFrame) = 2
    /\ \A k \in 1..Len(dataFrame) : NoBracket(DerivedName(dataFrame[k].id))
    /\ EndsLine(Content(runLog[Len(runLog)].before))
    /\ runLog[Len(runLog)].before # runLog[Len(runLog)].after
    /\ Content(runLog[Len(runLog)].before) # <<>>

\* The text holds, from position p on, the bracketed name and a comma.
NameAt(text, p, name) ==
  /\ p = 1 \/ text[p - 1] = NL
  /\ name # <<>>
  /\ \A k \in 1..Len(name) : name[k] \notin {"]", NL}
  /\ IsPrefix(<<"[", "[">> \o name \o <<"]", "]", ",">>, SubSeq(text, p, Len(text)))

Named(text, name) == \E p \in 1..Len(text) : NameAt(text, p, name)

\* The name occurs in brackets in the text, at the start of a line or not.
Mentioned(text, name) ==
  \E p \in 1..Len(text) :
    IsPrefix(<<"[", "[">> \o name \o <<"]", "]">>, SubSeq(text, p, Len(text)))

\* The ids of the records whose file the run looked up, in order.
RECURSIVE Backfilled(_)
Backfilled(trace) ==
  IF trace = <<>> THEN <<>>
  ELSE IF Head(trace).op = "getFile" /\ Head(trace).path \in RecordIds
       THEN <<Head(trace).path>> \o Backfilled(Tail(trace))
       ELSE Backfilled(Tail(trace))

RECURSIVE NotNamed(_, _)
NotNamed(records, text) ==
  IF records = <<>> THEN <<>>
  ELSE IF Named(text, DerivedName(Head(records).id)) THEN NotNamed(Tail(records), text)
  ELSE <<Head(records).id>> \o NotNamed(Tail(records), text)

(***************************************************************************)
(* C10.  Tolerant parsing: over any text in the log a run of               *)
(* validateAllFilesIndexed raises nothing and goes on until it returns;    *)
(* when no file operation failed, the records it wrote a backfill line     *)
(* for are the cached records, in order, whose name is not the bracketed   *)
(* name at the start of a line of the log, whatever else the log holds.    *)
(***************************************************************************)
C10_TolerantParsing ==
  \A c \in CallIds :
    LET l == calls[c] IN
    l.op = "validate" =>
      /\ l.pc # "raised"
      /\ l.pc \notin {"idle", "done"} => CanStep(l)
      /\ (l.pc = "done" /\ Faults(l) = 0) =>
           /\ Backfilled(l.trace) = NotNamed(dataFrame, Before(l))
           /\ IsPrefix(Before(l), After(l))
           /\ \A id \in RecordIds :
                NamedLines(Appended(l), DerivedName(id))
                  = Cardinality({k \in 1..Len(dataFrame) :
                                   /\ DerivedName(dataFrame[k].id) = DerivedName(id)
                                   /\ ~Named(Before(l), DerivedName(id))})

C10_Witness ==
  \E c \in CallIds :
    LET l == calls[c] IN
    /\ l.op = "validate" /\ l.pc = "done" /\ Faults(l) = 0
    /\ Mentioned(Before(l), DerivedName(IdB))
    /\ ~Named(Before(l), DerivedName(IdB))
    /\ Named(Before(l), DerivedName(IdA))
    /\ Backfilled(l.trace) = <<IdB>>
    /\ NamedLines(Appended(l), DerivedName(IdB)) = 1

(***************************************************************************)
(* The specification of the codec: names and statuses are given to the     *)
(* two encoders, and the line is given to the name pattern.                *)
(***************************************************************************)
NameSymbols == {"a", "b", "[", "]", ","}

Names == UNION {[1..n -> NameSymbols] : n \in 1..MaxName}

CodecStatuses == {Todo, Undefined, Null, Str(<<>>)}

InitCodec ==
  /\ settings = [enableStateTracking |-> FALSE, logPath |-> <<>>]
  /\ dataFrame = <<>>
  /\ fs = [p \in Paths |-> None]
  /\ calls = [c \in CallIds |-> IdleCall]
  /\ apiCalls = <<>>
  /\ runLog = <<>>
  /\ codec = None

\* Line 44, for a name and two statuses
EncodeChange ==
  /\ \E name \in Names, old \in CodecStatuses, new \in CodecStatuses :
       codec' = Some([kind |-> "change", name |-> name, old |-> old, new |-> new,
                      line |-> ChangeEntry(name, old, new), parsed |-> FALSE,
                      match |-> None])
  /\ UNCHANGED <<settings, dataFrame, fs, calls, apiCalls, runLog>>

\* Line 136, for a name, a date and a status
EncodeBackfill ==
  /\ \E name \in Names, date \in {<<>>, CurrentDate}, status \in {<<"backlog">>, <<>>} :
       codec' = Some([kind |-> "backfill", name |-> name,
                      line |-> BackfillEntry(name, date, status), parsed |-> FALSE,
                      match |-> None])
  /\ UNCHANGED <<settings, dataFrame, fs, calls, apiCalls, runLog>>

\* Line 79, for the line of an encoder
MatchLine ==
  /\ codec # None
  /\ ~codec[1].parsed
  /\ codec' = Some([codec[1] EXCEPT !.parsed = TRUE, !.match = NamePattern(codec[1].line)])
  /\ UNCHANGED <<settings, dataFrame, fs, calls, apiCalls, runLog>>

NextCodec == EncodeChange \/ EncodeBackfill \/ MatchLine

SpecCodec == InitCodec /\ [][NextCodec]_vars

(***************************************************************************)
(* C9.  Name round trip: the name pattern, applied to the line either      *)
(* encoder makes for a name with no "]" and no ",", captures that name.    *)
(***************************************************************************)
C9_NameRoundTrip ==
  (codec # None /\ codec[1].parsed
     /\ \A k \in 1..Len(codec[1].name) : codec[1].name[k] \notin {"]", ","})
  => codec[1].match = Some(codec[1].name)

C9_Witness ==
  /\ codec # None /\ codec[1].parsed /\ codec[1].kind = "backfill"
  /\ codec[1].name = <<"a", "[">>
  /\ codec[1].match = Some(<<"a", "[">>)


(***************************************************************************)
(* The specification of two update calls of one ViewApi that may overlap.  *)
(* A call runs from one await to the next without interruption, so the     *)
(* other call waits while a call is between its start and its first file   *)
(* operation.  The file operations succeed, but for a create of a file     *)
(* that exists by then.                                                    *)
(***************************************************************************)
RaceIds == {1, 2}

\* The call has started and has not reached its first await.
Fresh(l) == l.pc \in {"log_start", "val_start"} /\ l.trace = <<>>

\* The last file operation of the call succeeded, or was a create of a
\* file that exists.
Succeeded(l) ==
  LET e == l.trace[Len(l.trace)]
  IN  e.ok \/ (e.op = "create" /\ fs[e.path] # None)

InitRace ==
  /\ settings \in [enableStateTracking : {TRUE}, logPath : LogPaths]
  /\ dataFrame \in Caches
  /\ \E notes \in NoteFiles, log \in InitialLogs :
       fs = [p \in Paths |->
               IF p \in RecordIds THEN notes[p]
               ELSE IF p = ActualLogPath(settings.logPath) THEN log ELSE None]
  /\ calls = [c \in RaceIds |-> IdleCall]
  /\ apiCalls = <<>>
  /\ runLog = <<>>
  /\ codec = None

\* The call may take a step: the other call is not between its start and
\* its first await.
Turn(c) == \A d \in RaceIds \ {c} : ~Fresh(calls[d])

NextRace ==
  \E c \in RaceIds :
    \/ \E record \in Records, fields \in FieldLists :
         Turn(c) /\ UpdateRecord(c, record, fields)
    \/ Turn(c) /\ LogStart(c) /\ Succeeded(calls'[c])
    \/ Turn(c) /\ LogRead(c) /\ Succeeded(calls'[c])
    \/ Turn(c) /\ LogWrite(c) /\ Succeeded(calls'[c])
    \/ Turn(c) /\ ValidateStart(c) /\ Succeeded(calls'[c])
    \/ Turn(c) /\ ValidateRead(c) /\ Succeeded(calls'[c])
    \/ Turn(c) /\ ValidateFile(c) /\ Succeeded(calls'[c])
    \/ Turn(c) /\ ValidateWrite(c) /\ Succeeded(calls'[c])
    \/ Turn(c) /\ Finish(c)

SpecRace == InitRace /\ [][NextRace]_vars

\* The call has returned, it detected a change of status, and every file
\* operation of it succeeded.
ChangeLogged(l) ==
  /\ l.pc = "done" /\ l.tracking /\ ChangedAt(l) # {} /\ Faults(l) = 0

\* The text holds every change entry of the call, newline included.
HoldsEntries(text, l) ==
  \A k \in ChangedAt(l) :
    \E p \in 1..Len(text) :
      IsPrefix(CurrentEntry([l EXCEPT !.i = k]), SubSeq(text, p, Len(text)))

\* The second call began when the first had returned.
OneAfterTheOther(first, second) == first.pc = "done" /\ second.start = first.start + 1

(***************************************************************************)
(* C11.  When two update calls that each detected a change of status have  *)
(* returned and every file operation of both succeeded: if one call began  *)
(* when the other had returned, the log holds the text it held before the  *)
(* first call and the change entries of both calls; a log that lacks the   *)
(* change entry of one call is left only by calls that overlapped.         *)
(***************************************************************************)
C11_LostUpdateOnlyWhenInterleaved ==
  \A c \in RaceIds : \A d \in RaceIds \ {c} :
    (ChangeLogged(calls[c]) /\ ChangeLogged(calls[d])
       /\ OneAfterTheOther(calls[c], calls[d])) =>
      /\ IsPrefix(Before(calls[c]), After(calls[d]))
      /\ HoldsEntries(After(calls[d]), calls[c])
      /\ HoldsEntries(After(calls[d]), calls[d])

\* Both calls have returned without a failed file operation, and the log
\* lacks the change entry that one of them wrote.
C11_Witness ==
  \E c \in RaceIds : \E d \in RaceIds \ {c} :
    /\ ChangeLogged(calls[c]) /\ ChangeLogged(calls[d])
    /\ calls[c].op = "updateRecord" /\ calls[d].op = "updateRecord"
    /\ \E k \in Events(calls[c], {"write"}) :
         calls[c].trace[k].text = CurrentEntry(calls[c])
    /\ ~HoldsEntries(After(calls[d]), calls[c])
    /\ HoldsEntries(After(calls[d]), calls[d])


\* The lines of the text that are backfill lines of the name: the name in
\* brackets and three more fields.
BackfillLines(text, name) ==
  LET ls == Split(text, NL)
  IN  {k \in 1..Len(ls) : HasName(ls[k], name) /\ Len(Split(ls[k], ",")) = 4}

\* The call is in logStatusChange.
InLogStatusChange(l) == l.pc \in {"log_start", "log_read", "log_write"}

\* No run of validateAllFilesIndexed of the call has begun.
NotReconciledYet(l) == Events(l, {"validate"}) = {}

\* The changed records of the call have no backfill line in the text the
\* call appended.
ChangedNotBackfilled(l) ==
  \A k \in ChangedAt(l) : BackfillLines(Appended(l), DerivedName(l.records[k].id)) = {}

(***************************************************************************)
(* C12.  In an updateRecords call no run of validateAllFilesIndexed has    *)
(* begun while a change entry of the batch is still to be written, and     *)
(* when the call has returned with no failed file operation, the text it   *)
(* appended holds no backfill line for a record that changed status in     *)
(* the batch.                                                              *)
(***************************************************************************)
C12_ReconcileAfterLastEntry ==
  \A c \in CallIds :
    LET l == calls[c] IN
    (l.op = "updateRecords" /\ l.tracking) =>
      /\ InLogStatusChange(l) => NotReconciledYet(l)
      /\ (l.pc = "done" /\ Faults(l) = 0 /\ IsPrefix(Before(l), After(l))) =>
           ChangedNotBackfilled(l)


\* The cached record of the id of the call's only record, in the cache as
\* it was when the call began.
Existing(l) == Find(l.snapshot, l.records[1].id)

\* An updateRecord call with state tracking enabled.
TrackedUpdateRecord(l) == l.op = "updateRecord" /\ l.tracking

\* The call has looked up the log file: logStatusChange has begun.
AuditBegun(l) ==
  /\ l.trace # <<>>
  /\ l.trace[1].op = "getFile" /\ l.trace[1].path = Log(l)

(***************************************************************************)
(* C13.  An updateRecord call with state tracking enabled whose record is  *)
(* not in the record cache, or is there with the status the call brings,   *)
(* has returned in one step, with no file looked up, read, written or      *)
(* created, no run of validateAllFilesIndexed, and the log as it was.  A   *)
(* call whose record is in the cache with an undefined status and brings   *)
(* a defined one, or the other way round, goes into logStatusChange.       *)
(***************************************************************************)
C13_NoChangeNoAuditIO ==
  \A c \in CallIds :
    LET l == calls[c] IN
    TrackedUpdateRecord(l) =>
      /\ (Existing(l) = None \/ Existing(l)[1].status = l.records[1].status) =>
           /\ l.pc = "done"
           /\ Events(l, FileOps \cup {"validate"}) = {}
           /\ fs[Log(l)] = l.before
      /\ (/\ Existing(l) # None
          /\ (Existing(l)[1].status = Undefined) # (l.records[1].status = Undefined)) =>
           (l.pc = "log_start" \/ AuditBegun(l))

C13_Witness ==
  \E c \in CallIds :
    LET l == calls[c] IN
    /\ TrackedUpdateRecord(l) /\ l.pc = "done"
    /\ Existing(l) # None /\ Existing(l)[1].status = l.records[1].status
    /\ l.records[1].status = Undefined
    /\ Len(l.snapshot) = 2
    /\ l.before # None /\ Content(l.before) # <<>>


\* A run of validateAllFilesIndexed has returned and no file operation of
\* it failed.
Reconciled(l) == l.op = "validate" /\ l.pc = "done" /\ Faults(l) = 0

\* The name is the one the name pattern captures from a line of the text.
IndexedIn(text, name) ==
  \E k \in 1..Len(Split(text, NL)) : NamePattern(Split(text, NL)[k]) = Some(name)

AllIndexed(l) ==
  \A k \in 1..Len(dataFrame) :
    NoBracket(DerivedName(dataFrame[k].id)) => IndexedIn(After(l), DerivedName(dataFrame[k].id))

(***************************************************************************)
(* C14.  After a run of validateAllFilesIndexed in which no file operation *)
(* failed, the name of every cached record whose name has no "]" is the    *)
(* name the name pattern captures from a line of the log.                  *)
(***************************************************************************)
C14_AllIndexedAfterReconcile ==
  \A c \in CallIds : Reconciled(calls[c]) => AllIndexed(calls[c])

\* C14 as amended: after a run of validateAllFilesIndexed in which no file
\* operation failed, over a log that was absent, empty or ended with a
\* newline when the run began, the name of every cached record whose name
\* has no "]" is the name the name pattern captures from a line of the log.
C14_AllIndexedWhenLogEndsLine ==
  \A c \in CallIds :
    (Reconciled(calls[c]) /\ EndsLine(Before(calls[c]))) => AllIndexed(calls[c])

C14_Witness ==
  \E c \in CallIds :
    LET l == calls[c] IN
    /\ Reconciled(l) /\ EndsLine(Before(l)) /\ runLog = <<>>
    /\ Before(l) # <<>> /\ Len(dataFrame) = 2
    /\ IndexedIn(Before(l), DerivedName(dataFrame[1].id))
    /\ ~IndexedIn(Before(l), DerivedName(dataFrame[2].id))
    /\ NoBracket(DerivedName(dataFrame[2].id))
    /\ IndexedIn(After(l), DerivedName(dataFrame[2].id))


\* The writes and creates of the log file the call has asked for.
LogWrites(l) == {k \in Events(l, {"write", "create"}) : l.trace[k].path = Log(l)}

\* The run has read the log.
LogWasRead(l) == \E k \in Events(l, {"read"}) : l.trace[k].path = Log(l) /\ l.trace[k].ok

\* The ids of the cached records whose name the run did not find in the
\* log, in the order of the cache: all of them when it read no log.
Unindexed(l) == NotNamed(dataFrame, IF LogWasRead(l) THEN Before(l) ELSE <<>>)

\* The date and the status a backfill line may hold.
BackfillDates == {<<>>, CurrentDate}

BackfillStatuses == {<<"backlog">>, <<"doing">>}

\* The text is one backfill line for each of the ids, in their order.
BackfillLinesOf(text, ids) ==
  /\ ids # <<>>
  /\ text # <<>> /\ text[Len(text)] = NL
  /\ LET ls == Split(Line(text), NL)
     IN  /\ Len(ls) = Len(ids)
         /\ \A k \in 1..Len(ids) :
              \E date \in BackfillDates, status \in BackfillStatuses :
                ls[k] = Line(BackfillEntry(DerivedName(ids[k]), date, status))

(***************************************************************************)
(* C15.  A run of validateAllFilesIndexed asks for one write or create of  *)
(* the log at most, and for none when no record is missing; the text it    *)
(* adds is one backfill line for each cached record whose name it did not  *)
(* find in the log, in the order of the cache; it is a create when there   *)
(* is no log file and a write otherwise; and when no file operation        *)
(* failed and a record was missing, the log is the text read and then      *)
(* that text.                                                              *)
(***************************************************************************)
C15_OneBatchedAppend ==
  \A c \in CallIds :
    LET l == calls[c] IN
    l.op = "validate" =>
      /\ Cardinality(LogWrites(l)) <= 1
      /\ \A k \in LogWrites(l) :
           /\ BackfillLinesOf(l.trace[k].text, Unindexed(l))
           /\ l.trace[k].op = IF l.before = None THEN "create" ELSE "write"
      /\ (l.pc = "done" /\ Unindexed(l) = <<>>) => LogWrites(l) = {}
      /\ (l.pc = "done" /\ Faults(l) = 0 /\ Unindexed(l) # <<>>) =>
           \E k \in LogWrites(l) : After(l) = Before(l) \o l.trace[k].text

C15_Witness ==
  \E c \in CallIds :
    LET l == calls[c] IN
    /\ Reconciled(l) /\ runLog = <<>>
    /\ Before(l) # <<>>
    /\ Len(Unindexed(l)) = 2
    /\ Cardinality(LogWrites(l)) = 1
    /\ \A k \in LogWrites(l) : l.trace[k].op = "write"


\* The fields of the lines of a text that ends with a newline.
FieldsOfLines(text) ==
  {Split(Split(Line(text), NL)[k], ",") : k \in 1..Len(Split(Line(text), NL))}

(***************************************************************************)
(* C16.  Every backfill line a run of validateAllFilesIndexed writes has   *)
(* the current date as its second field, whether the record's file was     *)
(* found and read or not.                                                  *)
(***************************************************************************)
C16_BackfillDateIsToday ==
  \A c \in CallIds :
    LET l == calls[c] IN
    l.op = "validate" =>
      \A k \in LogWrites(l) :
        \A f \in FieldsOfLines(l.trace[k].text) : Len(f) >= 2 /\ f[2] = CurrentDate


(***************************************************************************)
(* The specification of the status scan: the text of a record file is      *)
(* given to the scan of lines 120-128.                                     *)
(***************************************************************************)
NoteLineTexts ==
  { <<"---">>,
    <<"---", " ">>,
    <<"status", ":", " ", "doing", " ">>,
    <<"status", ":">>,
    <<"tags", ":", " ", "x">>,
    <<"text">>,
    <<>> }

NoteTexts == {Join(q) : q \in UNION {[1..n -> NoteLineTexts] : n \in 1..MaxNoteLines}}

InitStatus ==
  /\ settings = [enableStateTracking |-> FALSE, logPath |-> <<>>]
  /\ dataFrame = <<>>
  /\ fs = [p \in Paths |-> None]
  /\ calls = [c \in CallIds |-> IdleCall]
  /\ apiCalls = <<>>
  /\ runLog = <<>>
  /\ codec \in {Some([kind |-> "note", content |-> t, parsed |-> FALSE,
                      status |-> <<>>]) : t \in NoteTexts}

\* Lines 120-128, for the text of a file
ScanStatus ==
  /\ codec # None /\ codec[1].kind = "note" /\ ~codec[1].parsed
  /\ codec' = Some([codec[1] EXCEPT !.parsed = TRUE,
                                    !.status = FrontmatterStatus(codec[1].content)])
  /\ UNCHANGED <<settings, dataFrame, fs, calls, apiCalls, runLog>>

NextStatus == ScanStatus

SpecStatus == InitStatus /\ [][NextStatus]_vars

\* The lines of the metadata block at the top of the text: the lines
\* between a first line that is a fence and the next line that is one.
IsFence(line) == IsPrefix(<<"---">>, line) /\ IsBlank(Tail(line))

BlockLines(content) ==
  LET ls == Split(content, NL)
      fences == {j \in 2..Len(ls) : IsFence(ls[j])}
  IN  IF IsFence(ls[1]) /\ fences # {} THEN SubSeq(ls, 2, Min(fences) - 1) ELSE <<>>

\* The lines of the block that hold the status key.
StatusKeys(block) == {k \in 1..Len(block) : IsPrefix(<<"status", ":">>, block[k])}

\* The value of the key of a line, trimmed.
KeyValue(line) == Trim(SubSeq(line, 3, Len(line)))

(***************************************************************************)
(* C17.  The status the scan gives for the text of a record file is the    *)
(* trimmed value of the status key of the metadata block at the top of     *)
(* the text when the block has that key with a value, the literal backlog  *)
(* when there is no block or no key in it, and nothing or backlog when     *)
(* the key has no value.                                                   *)
(***************************************************************************)
C17_StatusOfMetadataBlock ==
  (codec # None /\ codec[1].kind = "note" /\ codec[1].parsed) =>
    LET block == BlockLines(codec[1].content)
        keys == StatusKeys(block)
    IN  IF keys = {} THEN codec[1].status = <<"backlog">>
        ELSE IF KeyValue(block[Min(keys)]) = <<>> THEN codec[1].status \in {<<>>, <<"backlog">>}
        ELSE codec[1].status = KeyValue(block[Min(keys)])


\* A status as the log is to show it: null for null and undefined, the
\* value itself otherwise.
Shown(status) == IF status \in {Null, Undefined} THEN <<"null">> ELSE status.v

(***************************************************************************)
(* C18.  In the change entry of a name without a comma, the fourth field   *)
(* is the old status and the fifth the new status: null when the status    *)
(* is null or undefined, and the value itself otherwise.                   *)
(***************************************************************************)
C18_StatusFieldsAreTheStatuses ==
  (codec # None /\ codec[1].kind = "change"
     /\ \A k \in 1..Len(codec[1].name) : codec[1].name[k] # ",") =>
    LET f == Split(Line(codec[1].line), ",")
    IN  /\ Len(f) = 5
        /\ f[4] = Shown(codec[1].old)
        /\ f[5] = Shown(codec[1].new)


\* The steps of the audit logic in the history of the call.
AuditOps == FileOps \cup {"validate"}

\* The steps of the primary mutation in the history of the call.
MutationOps == {"cache", "dataApi"}

(***************************************************************************)
(* C19.  While a call of updateRecord or updateRecords has not returned,   *)
(* the record cache is as it was when the call began and dataApi has not   *)
(* been called.  When it has returned, the cache update and the dataApi    *)
(* call are the last two steps of the call, after every file operation     *)
(* and every run of validateAllFilesIndexed; dataApi was called once,      *)
(* with the fields and the records the call was given, and the cache was   *)
(* updated with those of the given records the data source includes.       *)
(***************************************************************************)
C19_MutationAfterAudit ==
  \A c \in CallIds :
    LET l == calls[c] IN
    l.op \in {"updateRecord", "updateRecords"} =>
      /\ l.pc # "done" =>
           /\ Events(l, MutationOps) = {}
           /\ apiCalls = <<>>
           /\ dataFrame = l.snapshot
      /\ l.pc = "done" =>
           /\ Events(l, MutationOps) = {Len(l.trace) - 1, Len(l.trace)}
           /\ l.trace[Len(l.trace) - 1].op = "cache"
           /\ l.trace[Len(l.trace)].op = "dataApi"
           /\ \A k \in Events(l, AuditOps) : k < Len(l.trace) - 1
           /\ apiCalls = <<[op |-> l.op, fields |-> l.fields, records |-> l.records]>>
           /\ dataFrame = StoreUpdateRecords(l.snapshot, Included(l.records))

C19_Witness ==
  \E c \in CallIds :
    LET l == calls[c] IN
    /\ l.pc = "done" /\ l.op = "updateRecords" /\ l.tracking
    /\ Cardinality(ChangedAt(l)) = 2
    /\ Cardinality(Events(l, {"validate"})) = 2
    /\ \E k \in LogWrites(l) : ~l.trace[k].ok
    /\ \E k \in LogWrites(l) : l.trace[k].ok
    /\ Included(l.records) # l.records
    /\ dataFrame # l.snapshot


\* The texts of the change entries the call has asked to write, in order:
\* the texts of one line of five fields.
RECURSIVE EntriesWritten(_)
EntriesWritten(trace) ==
  IF trace = <<>> THEN <<>>
  ELSE IF /\ Head(trace).op \in {"write", "create"}
          /\ Len(Split(Head(trace).text, ",")) = 5
       THEN <<Head(trace).text>> \o EntriesWritten(Tail(trace))
       ELSE EntriesWritten(Tail(trace))

\* The change entries of the records of the batch from the k-th on, each
\* record compared with the cache as it was when the call began.
RECURSIVE EntriesAgainstSnapshot(_, _)
EntriesAgainstSnapshot(l, k) ==
  IF k > Len(l.records) THEN <<>>
  ELSE LET record == l.records[k]
           cached == {m \in 1..Len(l.snapshot) : l.snapshot[m].id = record.id}
       IN  IF cached # {} /\ l.snapshot[Min(cached)].status # record.status
           THEN <<ChangeEntry(DerivedName(record.id), l.snapshot[Min(cached)].status,
                              record.status)>> \o EntriesAgainstSnapshot(l, k + 1)
           ELSE EntriesAgainstSnapshot(l, k + 1)

\* q is s with some elements left out.
RECURSIVE IsSubsequence(_, _)
IsSubsequence(q, s) ==
  IF q = <<>> THEN TRUE
  ELSE IF s = <<>> THEN FALSE
  ELSE IF Head(q) = Head(s) THEN IsSubsequence(Tail(q), Tail(s))
  ELSE IsSubsequence(q, Tail(s))

(***************************************************************************)
(* C20.  In an updateRecords call with state tracking enabled the record   *)
(* cache stays as it was at the start of the call until the call returns;  *)
(* the change entries the call asks to write are, in the order of the      *)
(* batch, entries of the records whose status differs from the status of   *)
(* that id in the cache at the start of the call, with that status as old  *)
(* status, also for an id that is in the batch twice; when no file         *)
(* operation failed they are the entries of all such records.              *)
(***************************************************************************)
C20_DetectionAgainstSnapshot ==
  \A c \in CallIds :
    LET l == calls[c] IN
    (l.op = "updateRecords" /\ l.tracking) =>
      /\ l.pc # "done" => dataFrame = l.snapshot
      /\ IsSubsequence(EntriesWritten(l.trace), EntriesAgainstSnapshot(l, 1))
      /\ (l.pc = "done" /\ Faults(l) = 0) =>
           EntriesWritten(l.trace) = EntriesAgainstSnapshot(l, 1)

C20_Witness ==
  \E c \in CallIds :
    LET l == calls[c] IN
    /\ l.op = "updateRecords" /\ l.tracking /\ l.pc = "done" /\ Faults(l) = 0
    /\ Len(l.records) = 2 /\ l.records[1].id = l.records[2].id
    /\ l.records[1].status = Doing /\ l.records[2].status = Doing
    /\ DataSourceIncludes(l.records[1].id)
    /\ Len(EntriesWritten(l.trace)) = 2
    /\ EntriesWritten(l.trace)[1] = EntriesWritten(l.trace)[2]

====
